---- MODULE Spec2Model ----
(***************************************************************************)
(* The 7tv website's data-loading glue and the image-processor manifest.   *)
(*                                                                         *)
(* One browser tab shows one route at a time.  The layout loaders of the   *)
(* user and the emote routes issue one GraphQL query per run and hand the  *)
(* pending promise to the page; the settings loader redirects anonymous    *)
(* visitors; the special-events admin page re-queries its list from an     *)
(* effect.  Promises settle when the network answers, in any order.        *)
(***************************************************************************)
EXTENDS FiniteSets, Integers, Sequences, TLC

\* Bounds of the model.
MaxReqs == 3        \* GraphQL queries issued in one behaviour
MaxEvents == 2      \* special events in one response
MaxOptions == 2     \* options of one select

\* Route id parameters the visitor navigates to.
Keys == {"k1", "k2"}
NoKey == "-"

\* Values of the user store ($/lib/stores): still loading, signed out, signed in.
StoreValues == {"undefined", "null", "u1"}

VARIABLES
    route,                      \* the route the tab shows
    id,                         \* params.id of that route (NoKey when it has none)
    user,                       \* the user store
    reqs,                       \* every query issued, in issue order
    loads,                      \* how often each layout load ran
    userRequest,                \* data.streamed.userRequest of the user layout
    emote,                      \* data.streamed.emote of the emote layout
    view,                       \* the await block of the user or emote page
    loadResult,                 \* how the last settings load ended
    results,                    \* let results = $state() of the special-events page
    table,                      \* the await blocks of the special-events page
    createDialogMode,           \* let createDialogMode = $state("hidden")
    effectDirty,                \* the $effect is scheduled to run
    assignEntitlementsDialog,   \* id of the event whose assign dialog is open (0: undefined)
    viewEntitlementsDialog,     \* id of the event whose view dialog is open (0: undefined)
    options,                    \* the options prop of the select (their values)
    given,                      \* the selected prop its parent passed ("undefined": none)
    disabled,                   \* the disabled prop of the select
    selected,                   \* let selected = $bindable(...)
    expanded,                   \* let expanded = $state(false)
    picked,                     \* the argument of the most recent select ("-": none yet)
    last,                       \* the operation that ran last
    listening,                  \* ports the image-processor container has bound
    healthy,                    \* its /health handler answers 200
    liveness,                   \* the kubelet's last liveness probe
    readiness,                  \* the kubelet's last readiness probe
    ready,                      \* the pod is an endpoint of the Service
    conn                        \* the last connection made through the Service

\* The page state of the two layout routes and of the special-events page.
loaderVars == <<userRequest, emote, view>>
adminVars == <<results, table, createDialogMode, effectDirty,
               assignEntitlementsDialog, viewEntitlementsDialog>>

\* The select component.
selectVars == <<options, given, disabled, selected, expanded, picked>>

webVars == <<route, id, user, reqs, loads, loaderVars, loadResult, adminVars,
             selectVars, last>>

\* The image-processor pod and its Service.
infraVars == <<listening, healthy, liveness, readiness, ready, conn>>

vars == <<webVars, infraVars>>

----------------------------------------------------------------------------
\* Promises and the await block

\* The response field of a promise that has not settled.
NoRes == [error |-> FALSE, data |-> "-"]

\* No promise (the page is not mounted).
NoPromise == [n |-> 0, st |-> "none", val |-> "", res |-> NoRes]

\* The promise of query number n, as returned by .toPromise().then(...).
Pending(n) == [n |-> n, st |-> "pending", val |-> "", res |-> NoRes]

\* An await block that renders nothing (the page is not mounted).
NoView == [n |-> 0, st |-> "none", val |-> ""]

\* {#await p}: the block subscribes to p.  A promise renders the branch of its
\* state, any other value (undefined) renders the then branch with that value.
Await(p) ==
    [n |-> p.n, st |-> IF p.st = "undefined" THEN "fulfilled" ELSE p.st, val |-> p.val]

\* A settled promise reaches the block only if it is the promise the block
\* currently awaits; then the block renders the then or the catch branch.
AwaitSettle(block, p) ==
    IF block.n = p.n /\ block.st = "pending"
    THEN [n |-> p.n, st |-> p.st, val |-> p.val]
    ELSE block

\* gqlClient().query(...): one request on the wire.
Query(src, k) == Append(reqs, [src |-> src, key |-> k, done |-> FALSE])

\* The answers the API can give to a query for key k: an error or not, and
\* no data, data with a null entity, or data with the entity of that key.
Responses(k) == [error : BOOLEAN, data : {"undefined", "null", k}]

\* A bug: a query that failed is sent again.
AnsweredRetry(n, res) ==
    IF res.error
    THEN Append([reqs EXCEPT ![n].done = TRUE], [reqs[n] EXCEPT !.done = FALSE])
    ELSE [reqs EXCEPT ![n].done = TRUE]

\* .toPromise(): the one result of query n is taken; nothing is sent again.
Answered(n, res) == [reqs EXCEPT ![n].done = TRUE]

\* The then-handler's outcome out settles promise p if p is the promise of query n.
Settle(p, n, out, res) ==
    IF p.n = n
    THEN [n |-> n, st |-> out.st, val |-> out.val, res |-> res]
    ELSE p

----------------------------------------------------------------------------
\* The user layout load

\* new ProxyState(req): a reactive cell holding the request.
ProxyState(p) == [value |-> p]

NoProxy == ProxyState(NoPromise)

\* A bug: the user is looked at before the error.
UserThenUserFirst(res) ==
    IF res.data = "null"
    THEN [st |-> "rejected", val |-> "User not found"]
    ELSE IF res.error \/ res.data = "undefined"
         THEN [st |-> "rejected", val |-> "Failed to load user"]
         ELSE [st |-> "fulfilled", val |-> res.data]

\* .then((res) => ...) of the user query.
UserThen(res) ==
    IF res.error \/ res.data = "undefined"
    THEN [st |-> "rejected", val |-> "Failed to load user"]
    ELSE IF res.data = "null"
         THEN [st |-> "rejected", val |-> "User not found"]
         ELSE [st |-> "fulfilled", val |-> res.data]

\* A bug: the load hands out the ProxyState it made before.
UserLoadStale(k) ==
    /\ reqs' = Query("user", k)
    /\ loads' = [loads EXCEPT !.user = @ + 1]
    /\ userRequest' = IF userRequest.value.n = 0
                      THEN ProxyState(Pending(Len(reqs) + 1)) ELSE userRequest
    /\ id' = k

\* load({ fetch, params }) of users/[id]: one query, wrapped, returned at once.
UserLoad(k) ==
    /\ reqs' = Query("user", k)
    /\ loads' = [loads EXCEPT !.user = @ + 1]
    /\ userRequest' = ProxyState(Pending(Len(reqs) + 1))
    /\ id' = k

\* .then((res) => res.data?.emotes.emote as Emote) of the emote query.
EmoteThen(res) == [st |-> "fulfilled", val |-> res.data]

\* load({ depends, fetch, params }) of the emote layout.
EmoteLoad(k) ==
    /\ reqs' = Query("emote", k)
    /\ loads' = [loads EXCEPT !.emote = @ + 1]
    /\ emote' = Pending(Len(reqs) + 1)
    /\ id' = k

\* A bug: every navigation runs the load again.
RerunAlways(r, k) == TRUE

\* A load that read params.id runs again when the route is entered or the
\* parameter changed; a navigation to the page already shown reuses its data.
Rerun(r, k) == ~(route = r /\ id = k)

----------------------------------------------------------------------------
\* The settings load

\* !get(user)
Falsy(v) == v \in {"undefined", "null"}

NoLoadResult == [kind |-> "none", status |-> 0, location |-> ""]

\* A bug: the test is inverted.
SettingsLoadInverted ==
    IF ~Falsy(user)
    THEN [kind |-> "redirect", status |-> 303,
          location |-> "/sign-in?continue=/settings"]
    ELSE [kind |-> "returned", status |-> 0, location |-> ""]

\* load() of settings: redirect(303, ...) throws, otherwise nothing is returned.
SettingsLoad ==
    IF Falsy(user)
    THEN [kind |-> "redirect", status |-> 303,
          location |-> "/sign-in?continue=/settings"]
    ELSE [kind |-> "returned", status |-> 0, location |-> ""]

----------------------------------------------------------------------------
\* The special-events admin page

DialogModes == {"hidden", "shown"}

\* res.data?.specialEvents.specialEvents: undefined, or the list of events.
\* An event is its id; the ids of one list are distinct.
NoEvents == [defined |-> FALSE, list |-> <<>>]

EventLists == {NoEvents} \cup
    {[defined |-> TRUE, list |-> [i \in 1..n |-> i]] : n \in 0..MaxEvents}

EventsResponses == [error : BOOLEAN, data : EventLists]

NoEvRes == [error |-> FALSE, data |-> NoEvents]

\* results of a page that is not mounted.
NoResults == [n |-> 0, st |-> "none", val |-> NoEvents, res |-> NoEvRes]

\* let results = $state(): undefined until the effect ran.
Undefined == [n |-> 0, st |-> "undefined", val |-> NoEvents, res |-> NoEvRes]

PendingEvents(n) == [n |-> n, st |-> "pending", val |-> NoEvents, res |-> NoEvRes]

NoTable == [n |-> 0, st |-> "none", val |-> NoEvents]

\* async function querySpecialEvents(): return res.data?.specialEvents.specialEvents
querySpecialEvents(res) == [st |-> "fulfilled", val |-> res.data]

\* A bug: the effect queries while the dialog is shown.
SpecialEventsEffectInverted ==
    IF createDialogMode # "hidden"
    THEN /\ reqs' = Query("events", NoKey)
         /\ results' = PendingEvents(Len(reqs) + 1)
    ELSE UNCHANGED <<reqs, results>>

\* A bug: the effect queries but keeps the request it already has.
SpecialEventsEffectKeeps ==
    IF createDialogMode = "hidden"
    THEN /\ reqs' = Query("events", NoKey)
         /\ results' = IF results.st = "undefined"
                       THEN PendingEvents(Len(reqs) + 1) ELSE results
    ELSE UNCHANGED <<reqs, results>>

\* $effect(() => { if (createDialogMode === "hidden") results = querySpecialEvents(); })
SpecialEventsEffect ==
    IF createDialogMode = "hidden"
    THEN /\ reqs' = Query("events", NoKey)
         /\ results' = PendingEvents(Len(reqs) + 1)
    ELSE UNCHANGED <<reqs, results>>

\* Writing createDialogMode: the effect that read it is scheduled when the
\* value changed.
SetCreateDialogMode(m) ==
    /\ createDialogMode' = m
    /\ effectDirty' = (m # createDialogMode)

\* {#each results as specialEvent}: the row and the two dialogs of event e exist.
Rendered(e) ==
    /\ table.st = "fulfilled"
    /\ \E i \in 1..Len(table.val.list) : table.val.list[i] = e

\* A bug: the empty list is not told from a list with events.
TableBodyNoEmpty(block) ==
    IF block.st = "pending"
    THEN [spinner |-> TRUE, empty |-> FALSE, rows |-> <<>>]
    ELSE IF block.st = "fulfilled"
         THEN IF block.val.defined
              THEN [spinner |-> FALSE, empty |-> FALSE, rows |-> block.val.list]
              ELSE [spinner |-> FALSE, empty |-> TRUE, rows |-> <<>>]
         ELSE [spinner |-> FALSE, empty |-> FALSE, rows |-> <<>>]

\* <tbody>{#await results} ... {:then results} ... {/await}: the spinner row,
\* or one row per event, or the "No Special Events" row.
TableBody(block) ==
    IF block.st = "pending"
    THEN [spinner |-> TRUE, empty |-> FALSE, rows |-> <<>>]
    ELSE IF block.st = "fulfilled"
         THEN IF block.val.defined /\ Len(block.val.list) > 0
              THEN [spinner |-> FALSE, empty |-> FALSE, rows |-> block.val.list]
              ELSE [spinner |-> FALSE, empty |-> TRUE, rows |-> <<>>]
         ELSE [spinner |-> FALSE, empty |-> FALSE, rows |-> <<>>]

\* {#await results then results}{#if results}Found {results.length} results:
\* the N of the text, -1 when the text is not rendered.
FoundText(block) ==
    IF block.st = "fulfilled" /\ block.val.defined
    THEN Len(block.val.list)
    ELSE -1

\* bind:mode getter of AdminAssignEntitlementDialog
AssignMode(e) == IF assignEntitlementsDialog = e THEN "shown" ELSE "hidden"

\* bind:mode getter of AdminViewEntitlementDialog
ViewMode(e) == IF viewEntitlementsDialog = e THEN "shown" ELSE "hidden"

\* A bug: closing the assign dialog closes the view dialog too.
AssignSetterBoth(m) ==
    /\ assignEntitlementsDialog' = IF m = "hidden" THEN 0 ELSE assignEntitlementsDialog
    /\ viewEntitlementsDialog' = IF m = "hidden" THEN 0 ELSE viewEntitlementsDialog

\* bind:mode setter of AdminAssignEntitlementDialog
AssignSetter(m) ==
    /\ assignEntitlementsDialog' = IF m = "hidden" THEN 0 ELSE assignEntitlementsDialog
    /\ UNCHANGED viewEntitlementsDialog

\* bind:mode setter of AdminViewEntitlementDialog
ViewSetter(m) ==
    /\ viewEntitlementsDialog' = IF m = "hidden" THEN 0 ELSE viewEntitlementsDialog
    /\ UNCHANGED assignEntitlementsDialog

----------------------------------------------------------------------------
\* The select component

\* Values an option can carry, and a value no option carries.
OptionValues == {"a", "b"}
OtherValue == "z"

\* options: Option[], as the sequence of the options' values.
OptionLists == UNION {[1..n -> OptionValues] : n \in 0..MaxOptions}

\* selected = $bindable(options[0]?.value ?? undefined): the fallback is used
\* when the parent passes no selected.
InitialSelected(opts, sel) ==
    IF sel # "undefined" THEN sel
    ELSE IF Len(opts) > 0 THEN opts[1] ELSE "undefined"

\* function toggle()
toggle ==
    /\ expanded' = ~expanded
    /\ UNCHANGED selected

\* function close()
close ==
    /\ expanded' = FALSE
    /\ UNCHANGED selected

\* A bug: select leaves the dropdown open.
selectKeepsOpen(option) ==
    /\ selected' = option
    /\ UNCHANGED expanded

\* function select(option: string)
select(option) ==
    /\ selected' = option
    /\ expanded' = FALSE

----------------------------------------------------------------------------
\* The image-processor manifest

\* A port reference of a manifest: a port name or a port number.
Named(s) == [name |-> s, number |-> 0]
Numbered(p) == [name |-> "", number |-> p]

\* A bug: the metrics port is declared under another name.
ContainerPortsRenamed ==
    {[name |-> "grpc", containerPort |-> 50051],
     [name |-> "http", containerPort |-> 9000]}

\* spec.template.spec.containers[0].ports
ContainerPorts ==
    {[name |-> "grpc", containerPort |-> 50051],
     [name |-> "metrics", containerPort |-> 9000]}

\* livenessProbe.httpGet
LivenessProbe == [port |-> Named("metrics"), path |-> "/health"]

\* readinessProbe.httpGet
ReadinessProbe == [port |-> Named("metrics"), path |-> "/health"]

\* The ports of the Service.
ServicePorts ==
    {[name |-> "grpc", port |-> 50051, targetPort |-> Named("grpc")],
     [name |-> "metrics", port |-> 9000, targetPort |-> Numbered(9000)]}

\* A number stands for itself; a name is looked up among the container's
\* ports (0: no port of that name).
ResolvePort(ref) ==
    IF ref.name = "" THEN ref.number
    ELSE IF \E p \in ContainerPorts : p.name = ref.name
         THEN (CHOOSE p \in ContainerPorts : p.name = ref.name).containerPort
         ELSE 0

NoProbe == [target |-> 0, path |-> "", result |-> "none"]

\* One HTTP GET of the kubelet.
HttpProbe(probe) ==
    LET target == ResolvePort(probe.port) IN
    [target |-> target, path |-> probe.path,
     result |-> IF target = 0 THEN "unresolved"
                ELSE IF target \in listening /\ probe.path = "/health" /\ healthy
                     THEN "ok" ELSE "fail"]

NoConn == [port |-> 0, target |-> 0, result |-> "none"]

\* A client connects to a port of the Service.
Forward(sp) ==
    LET target == ResolvePort(sp.targetPort) IN
    [port |-> sp.port, target |-> target,
     result |-> IF target = 0 THEN "unresolved"
                ELSE IF ~ready THEN "no endpoint"
                ELSE IF target \in listening THEN "forwarded" ELSE "refused"]

----------------------------------------------------------------------------
Init ==
    /\ route = "home"
    /\ id = NoKey
    /\ user = "undefined"
    /\ reqs = <<>>
    /\ loads = [user |-> 0, emote |-> 0]
    /\ userRequest = NoProxy
    /\ emote = NoPromise
    /\ view = NoView
    /\ loadResult = NoLoadResult
    /\ results = NoResults
    /\ table = NoTable
    /\ createDialogMode = "hidden"
    /\ effectDirty = FALSE
    /\ assignEntitlementsDialog = 0
    /\ viewEntitlementsDialog = 0
    /\ options = <<>>
    /\ given = "undefined"
    /\ disabled = FALSE
    /\ selected = "undefined"
    /\ expanded = FALSE
    /\ picked = "-"
    /\ last = "init"
    /\ listening = {}
    /\ healthy = FALSE
    /\ liveness = NoProbe
    /\ readiness = NoProbe
    /\ ready = FALSE
    /\ conn = NoConn

\* Effects run in a microtask: before the next event, response or navigation.
Idle == ~effectDirty

\* The page of a layout route is destroyed.
LoaderGone ==
    /\ userRequest' = NoProxy
    /\ emote' = NoPromise
    /\ view' = NoView

\* The special-events page is destroyed.
AdminGone ==
    /\ results' = NoResults
    /\ table' = NoTable
    /\ createDialogMode' = "hidden"
    /\ effectDirty' = FALSE
    /\ assignEntitlementsDialog' = 0
    /\ viewEntitlementsDialog' = 0

\* The store is written by sign-in, sign-out and the session fetch.
SetUser(v) ==
    /\ Idle
    /\ v # user
    /\ user' = v
    /\ last' = "setUser"
    /\ UNCHANGED <<route, id, reqs, loads, loaderVars, loadResult, adminVars, selectVars, infraVars>>

NavigateUser(k) ==
    /\ Idle
    /\ last' = "navigate"
    /\ route' = "user"
    /\ IF Rerun("user", k)
       THEN /\ Len(reqs) < MaxReqs
            /\ UserLoad(k)
            /\ view' = Await(userRequest'.value)
            /\ emote' = NoPromise
            /\ loadResult' = NoLoadResult
            /\ AdminGone
       ELSE UNCHANGED <<id, reqs, loads, loaderVars, loadResult, adminVars>>
    /\ UNCHANGED <<user, selectVars, infraVars>>

NavigateEmote(k) ==
    /\ Idle
    /\ last' = "navigate"
    /\ route' = "emote"
    /\ IF Rerun("emote", k)
       THEN /\ Len(reqs) < MaxReqs
            /\ EmoteLoad(k)
            /\ view' = Await(emote')
            /\ userRequest' = NoProxy
            /\ loadResult' = NoLoadResult
            /\ AdminGone
       ELSE UNCHANGED <<id, reqs, loads, loaderVars, loadResult, adminVars>>
    /\ UNCHANGED <<user, selectVars, infraVars>>

\* invalidate(`emotes:${id}`): the dependency registered by depends() runs the
\* emote load again for the key already shown.
InvalidateEmote ==
    /\ Idle
    /\ route = "emote"
    /\ Len(reqs) < MaxReqs
    /\ last' = "invalidate"
    /\ EmoteLoad(id)
    /\ view' = Await(emote')
    /\ UNCHANGED <<route, user, userRequest, loadResult, adminVars, selectVars, infraVars>>

NavigateSettings ==
    /\ Idle
    /\ route # "settings"
    /\ last' = "settingsLoad"
    /\ loadResult' = SettingsLoad
    /\ route' = IF loadResult'.kind = "redirect" THEN "signin" ELSE "settings"
    /\ id' = NoKey
    /\ LoaderGone
    /\ AdminGone
    /\ UNCHANGED <<user, reqs, loads, selectVars, infraVars>>

NavigateHome ==
    /\ Idle
    /\ route # "home"
    /\ last' = "navigate"
    /\ route' = "home"
    /\ id' = NoKey
    /\ loadResult' = NoLoadResult
    /\ LoaderGone
    /\ AdminGone
    /\ UNCHANGED <<user, reqs, loads, selectVars, infraVars>>

\* The special-events page is mounted: its state is initialised, the await
\* blocks render results (undefined), and the effect is scheduled.
NavigateAdmin ==
    /\ Idle
    /\ route # "admin"
    /\ Len(reqs) < MaxReqs
    /\ last' = "navigate"
    /\ route' = "admin"
    /\ id' = NoKey
    /\ loadResult' = NoLoadResult
    /\ LoaderGone
    /\ results' = Undefined
    /\ table' = Await(Undefined)
    /\ createDialogMode' = "hidden"
    /\ effectDirty' = TRUE
    /\ assignEntitlementsDialog' = 0
    /\ viewEntitlementsDialog' = 0
    /\ UNCHANGED <<user, reqs, loads, selectVars, infraVars>>

\* The scheduled effect runs; the await blocks follow results.
RunEffect ==
    /\ effectDirty
    /\ effectDirty' = FALSE
    /\ SpecialEventsEffect
    /\ table' = IF results' = results THEN table ELSE Await(results')
    /\ last' = "effect"
    /\ UNCHANGED <<route, id, user, loads, loaderVars, loadResult, createDialogMode,
                   assignEntitlementsDialog, viewEntitlementsDialog, selectVars, infraVars>>

\* onclick of "Add Special Event"
ClickAdd ==
    /\ Idle
    /\ route = "admin"
    /\ SetCreateDialogMode("shown")
    /\ last' = "ui"
    /\ UNCHANGED <<route, id, user, reqs, loads, loaderVars, loadResult, results, table,
                   assignEntitlementsDialog, viewEntitlementsDialog, selectVars, infraVars>>

\* AdminCreateSpecialEventDialog writes its bound mode (it closes, or stays open).
CreateDialogWrites(m) ==
    /\ Idle
    /\ route = "admin"
    /\ createDialogMode = "shown"
    /\ m = "hidden" => Len(reqs) < MaxReqs
    /\ SetCreateDialogMode(m)
    /\ last' = "ui"
    /\ UNCHANGED <<route, id, user, reqs, loads, loaderVars, loadResult, results, table,
                   assignEntitlementsDialog, viewEntitlementsDialog, selectVars, infraVars>>

\* onclick of the "Assign Entitlements" button in the row of event e
ClickAssign(e) ==
    /\ Idle
    /\ route = "admin"
    /\ Rendered(e)
    /\ assignEntitlementsDialog' = e
    /\ last' = "ui"
    /\ UNCHANGED <<route, id, user, reqs, loads, loaderVars, loadResult, results, table,
                   createDialogMode, effectDirty, viewEntitlementsDialog, selectVars, infraVars>>

\* onclick of the "View Entitlements" button in the row of event e
ClickView(e) ==
    /\ Idle
    /\ route = "admin"
    /\ Rendered(e)
    /\ viewEntitlementsDialog' = e
    /\ last' = "ui"
    /\ UNCHANGED <<route, id, user, reqs, loads, loaderVars, loadResult, results, table,
                   createDialogMode, effectDirty, assignEntitlementsDialog, selectVars, infraVars>>

\* The assign dialog of event e writes its bound mode.
AssignDialogWrites(e, m) ==
    /\ Idle
    /\ route = "admin"
    /\ Rendered(e)
    /\ AssignSetter(m)
    /\ last' = IF m = "hidden" THEN "assignHidden" ELSE "ui"
    /\ UNCHANGED <<route, id, user, reqs, loads, loaderVars, loadResult, results, table,
                   createDialogMode, effectDirty, selectVars, infraVars>>

\* The view dialog of event e writes its bound mode.
ViewDialogWrites(e, m) ==
    /\ Idle
    /\ route = "admin"
    /\ Rendered(e)
    /\ ViewSetter(m)
    /\ last' = IF m = "hidden" THEN "viewHidden" ELSE "ui"
    /\ UNCHANGED <<route, id, user, reqs, loads, loaderVars, loadResult, results, table,
                   createDialogMode, effectDirty, selectVars, infraVars>>

\* The network answers query n; the then-handler settles its promise and the
\* await block that awaits it re-renders.
RespondUser(n, res) ==
    /\ Idle
    /\ reqs[n].src = "user"
    /\ ~reqs[n].done
    /\ res \in Responses(reqs[n].key)
    /\ reqs' = Answered(n, res)
    /\ userRequest' = ProxyState(Settle(userRequest.value, n, UserThen(res), res))
    /\ view' = IF userRequest.value.n = n
               THEN AwaitSettle(view, userRequest'.value) ELSE view
    /\ last' = "respond"
    /\ UNCHANGED <<route, id, user, loads, emote, loadResult, adminVars, selectVars, infraVars>>

RespondEmote(n, res) ==
    /\ Idle
    /\ reqs[n].src = "emote"
    /\ ~reqs[n].done
    /\ res \in Responses(reqs[n].key)
    /\ reqs' = Answered(n, res)
    /\ emote' = Settle(emote, n, EmoteThen(res), res)
    /\ view' = IF emote.n = n THEN AwaitSettle(view, emote') ELSE view
    /\ last' = "respond"
    /\ UNCHANGED <<route, id, user, loads, userRequest, loadResult, adminVars, selectVars, infraVars>>

RespondEvents(n, res) ==
    /\ Idle
    /\ reqs[n].src = "events"
    /\ ~reqs[n].done
    /\ res \in EventsResponses
    /\ reqs' = Answered(n, res)
    /\ results' = Settle(results, n, querySpecialEvents(res), res)
    /\ table' = IF results.n = n THEN AwaitSettle(table, results') ELSE table
    /\ last' = "respond"
    /\ UNCHANGED <<route, id, user, loads, loaderVars, loadResult, createDialogMode,
                   effectDirty, assignEntitlementsDialog, viewEntitlementsDialog,
                   selectVars, infraVars>>

Next ==
    \/ \E k \in Keys : NavigateUser(k)
    \/ \E k \in Keys : NavigateEmote(k)
    \/ InvalidateEmote
    \/ NavigateHome
    \/ NavigateAdmin
    \/ RunEffect
    \/ ClickAdd
    \/ \E m \in DialogModes : CreateDialogWrites(m)
    \/ \E n \in 1..Len(reqs) : \E res \in Responses(reqs[n].key) : RespondUser(n, res)
    \/ \E n \in 1..Len(reqs) : \E res \in Responses(reqs[n].key) : RespondEmote(n, res)
    \/ \E n \in 1..Len(reqs) : \E res \in EventsResponses : RespondEvents(n, res)

\* The requests of the three pages: every route, every answer, any order.
Spec == Init /\ [][Next]_vars

----------------------------------------------------------------------------
\* The special-events page in full, with its entitlement dialogs

NextEvents ==
    \/ NavigateAdmin
    \/ NavigateHome
    \/ RunEffect
    \/ ClickAdd
    \/ \E m \in DialogModes : CreateDialogWrites(m)
    \/ \E e \in 1..MaxEvents : ClickAssign(e)
    \/ \E e \in 1..MaxEvents : ClickView(e)
    \/ \E e \in 1..MaxEvents : \E m \in DialogModes : AssignDialogWrites(e, m)
    \/ \E e \in 1..MaxEvents : \E m \in DialogModes : ViewDialogWrites(e, m)
    \/ \E n \in 1..Len(reqs) : \E res \in EventsResponses : RespondEvents(n, res)

\* The microtask queue always drains: a scheduled effect runs.
SpecEvents == Init /\ [][NextEvents]_vars /\ WF_vars(RunEffect)

----------------------------------------------------------------------------
\* One select component from its mount on

\* The component is created with its props; the dropdown is built collapsed.
MountSelect(opts, sel, dis) ==
    /\ last = "init"
    /\ options' = opts
    /\ given' = sel
    /\ disabled' = dis
    /\ selected' = InitialSelected(opts, sel)
    /\ expanded' = FALSE
    /\ picked' = "-"
    /\ last' = "mount"
    /\ UNCHANGED <<route, id, user, reqs, loads, loaderVars, loadResult, adminVars,
                   infraVars>>

\* onclick of the button, onclick and onkeypress of the native select
Toggle ==
    /\ last # "init"
    /\ ~disabled
    /\ toggle
    /\ last' = "toggle"
    /\ UNCHANGED <<route, id, user, reqs, loads, loaderVars, loadResult, adminVars,
                   options, given, disabled, picked, infraVars>>

\* use:mouseTrap={close}: a click outside the component
Close ==
    /\ last # "init"
    /\ close
    /\ last' = "close"
    /\ UNCHANGED <<route, id, user, reqs, loads, loaderVars, loadResult, adminVars,
                   options, given, disabled, picked, infraVars>>

\* {#if expanded}: onclick of the button of option i
SelectOption(i) ==
    /\ last # "init"
    /\ expanded
    /\ i \in 1..Len(options)
    /\ select(options[i])
    /\ picked' = options[i]
    /\ last' = "select"
    /\ UNCHANGED <<route, id, user, reqs, loads, loaderVars, loadResult, adminVars,
                   options, given, disabled, infraVars>>

NextSelect ==
    \/ \E opts \in OptionLists : \E sel \in OptionValues \cup {OtherValue, "undefined"} :
          \E dis \in BOOLEAN : MountSelect(opts, sel, dis)
    \/ Toggle
    \/ Close
    \/ \E i \in 1..MaxOptions : SelectOption(i)

SpecSelect == Init /\ [][NextSelect]_vars

----------------------------------------------------------------------------
\* The settings route beside the user route, with the user store changing

NextSettings ==
    \/ \E v \in StoreValues : SetUser(v)
    \/ NavigateSettings
    \/ NavigateHome
    \/ \E k \in Keys : NavigateUser(k)
    \/ \E n \in 1..Len(reqs) : \E res \in Responses(reqs[n].key) : RespondUser(n, res)

SpecSettings == Init /\ [][NextSettings]_vars

----------------------------------------------------------------------------
\* The image-processor pod under the kubelet and the Service

\* The process binds one of the ports its configuration names.
Bind(p) ==
    /\ p \notin listening
    /\ listening' = listening \cup {p}
    /\ UNCHANGED <<webVars, healthy, liveness, readiness, ready, conn>>

\* The health handler starts or stops answering 200.
HealthFlips ==
    /\ healthy' = ~healthy
    /\ UNCHANGED <<webVars, listening, liveness, readiness, ready, conn>>

LivenessCheck ==
    /\ liveness' = HttpProbe(LivenessProbe)
    /\ UNCHANGED <<webVars, listening, healthy, readiness, ready, conn>>

\* A failed liveness probe lets the kubelet restart the container.
Restart ==
    /\ liveness.result = "fail"
    /\ listening' = {}
    /\ healthy' = FALSE
    /\ liveness' = NoProbe
    /\ readiness' = NoProbe
    /\ ready' = FALSE
    /\ UNCHANGED <<webVars, conn>>

ReadinessCheck ==
    /\ readiness' = HttpProbe(ReadinessProbe)
    /\ ready' = (readiness'.result = "ok")
    /\ UNCHANGED <<webVars, listening, healthy, liveness, conn>>

Connect(sp) ==
    /\ conn' = Forward(sp)
    /\ UNCHANGED <<webVars, listening, healthy, liveness, readiness, ready>>

NextInfra ==
    \/ \E p \in {q.containerPort : q \in ContainerPorts} : Bind(p)
    \/ HealthFlips
    \/ LivenessCheck
    \/ Restart
    \/ ReadinessCheck
    \/ \E sp \in ServicePorts : Connect(sp)

SpecInfra == Init /\ [][NextInfra]_vars

----------------------------------------------------------------------------
\* Properties

Settled == {"fulfilled", "rejected"}

\* The most recently issued query of a source (0: none).
LastReq(src) ==
    LET S == {i \in 1..Len(reqs) : reqs[i].src = src}
    IN IF S = {} THEN 0 ELSE CHOOSE i \in S : \A j \in S : j <= i

\* Step predicates: a query of source src is sent, and query n is answered.
Sent(src) ==
    /\ Len(reqs') > Len(reqs)
    /\ reqs'[Len(reqs')].src = src

AnsweredNow(n) ==
    /\ n <= Len(reqs)
    /\ n <= Len(reqs')
    /\ ~reqs[n].done
    /\ reqs'[n].done

\* C1 (state part): on the user route the page observes the request its load
\* issued last: pending while that query is unanswered, and once it is
\* answered exactly the state and value of the promise the ProxyState holds;
\* a success is shown only for a fulfilled promise.
C1_Observed ==
    route = "user" =>
        LET n == LastReq("user")
            p == userRequest.value
        IN /\ view.n = n
           /\ p.n = n
           /\ ~reqs[n].done => view.st = "pending" /\ p.st = "pending"
           /\ reqs[n].done =>
                /\ p.st \in Settled
                /\ view.st = p.st
                /\ view.val = p.val
           /\ view.st = "fulfilled" => p.st = "fulfilled" /\ view.val = p.res.data

\* C1 (step part): an outcome the page observes for a request never changes
\* while that request stays the one observed.
C1_Stable ==
    (/\ route = "user" /\ route' = "user"
     /\ view.n = view'.n
     /\ view.st \in Settled) => view' = view

\* C1: the streamed user request shows pending until it settles, then exactly
\* its value or its rejection, and an observed outcome never changes.
C1_StreamedUserRequest == [](C1_Observed) /\ [][C1_Stable]_vars

\* C1 witness: a rejected user request is observed as the rejection.
C1_Witness ==
    /\ route = "user"
    /\ view.st = "rejected"
    /\ view.val = "User not found"
    /\ userRequest.value.st = "rejected"

\* C2: a navigation to a layout route whose key equals the key already shown
\* sends no query; a navigation whose key differs sends exactly one query,
\* for the new key.
C2_Step ==
    (last' = "navigate" /\ route' \in {"user", "emote"}) =>
        IF route' = route /\ id' = id
        THEN reqs' = reqs
        ELSE /\ Len(reqs') = Len(reqs) + 1
             /\ SubSeq(reqs', 1, Len(reqs)) = reqs
             /\ reqs'[Len(reqs')] = [src |-> route', key |-> id', done |-> FALSE]

\* C2: across any sequence of navigations, the same key sends no query and a
\* new key sends exactly one.
C2_OneFetchPerKeyChange == [][C2_Step]_vars

\* C2 witness: a navigation to the user already shown, after its request
\* settled, and an earlier navigation to another key: two queries in all.
C2_Witness ==
    /\ last = "navigate"
    /\ route = "user"
    /\ view.st \in Settled
    /\ Len(reqs) = 2
    /\ reqs[1].src = "user" /\ reqs[2].src = "user"
    /\ reqs[1].key # reqs[2].key

\* C3 (as claimed): in both layout loads a response that carries an error
\* rejects the streamed request.
C3_ErrorRejects ==
    /\ (userRequest.value.st \in Settled /\ userRequest.value.res.error)
          => userRequest.value.st = "rejected"
    /\ (emote.st \in Settled /\ emote.res.error) => emote.st = "rejected"

\* C4 (state part): the page awaits the most recently issued request of its
\* source and shows that request's state: pending until it is answered, its
\* outcome from then on.
C4_Latest ==
    /\ route = "user" =>
          /\ view.n = LastReq("user")
          /\ view = Await(userRequest.value)
          /\ reqs[view.n].done <=> view.st \in Settled
    /\ route = "emote" =>
          /\ view.n = LastReq("emote")
          /\ view = Await(emote)
          /\ reqs[view.n].done <=> view.st \in Settled
    /\ (route = "admin" /\ results.st # "undefined") =>
          /\ table.n = LastReq("events")
          /\ table = Await(results)
          /\ reqs[table.n].done <=> table.st \in Settled

\* C4 (step part): the answer to a request that is not the most recent of its
\* source changes nothing the page shows.
C4_StaleIgnored ==
    \A n \in 1..Len(reqs) :
        (AnsweredNow(n) /\ n # LastReq(reqs[n].src)) =>
            /\ view' = view
            /\ table' = table

\* C4: a request issued while an earlier one is in flight supersedes it,
\* whichever answer arrives first.
C4_Superseded == [](C4_Latest) /\ [][C4_StaleIgnored]_vars

\* C4 witness: the stale user request was answered while the newer one is
\* still in flight, and the page still shows the newer one pending.
C4_Witness ==
    /\ route = "user"
    /\ last = "respond"
    /\ Len(reqs) = 2
    /\ reqs[1].src = "user" /\ reqs[1].done
    /\ reqs[2].src = "user" /\ ~reqs[2].done
    /\ view = Await(Pending(2))

\* C5: the queries sent for a layout load are as many as the runs of that
\* load, whatever the answers were.
C5_NoRetry ==
    /\ Cardinality({i \in 1..Len(reqs) : reqs[i].src = "user"}) = loads.user
    /\ Cardinality({i \in 1..Len(reqs) : reqs[i].src = "emote"}) = loads.emote

\* C5 witness: a user query failed and an emote query was answered with an
\* error, with one query per run.
C5_Witness ==
    /\ route = "user"
    /\ userRequest.value.st = "rejected"
    /\ userRequest.value.res.error
    /\ loads.emote >= 1
    /\ \A i \in 1..Len(reqs) : reqs[i].done

\* C6: gRPC is declared on 50051 and metrics on 9000; both probes GET /health
\* on the port named metrics, 9000; the Service forwards 50051 to the port
\* named grpc and 9000 to 9000; no reference is unresolved.
C6_PortsResolve ==
    /\ [name |-> "grpc", containerPort |-> 50051] \in ContainerPorts
    /\ [name |-> "metrics", containerPort |-> 9000] \in ContainerPorts
    /\ \A pr \in {liveness, readiness} :
          pr.result # "none" =>
             /\ pr.result # "unresolved"
             /\ pr.target = 9000
             /\ pr.path = "/health"
    /\ conn.result # "none" =>
          /\ conn.result # "unresolved"
          /\ conn.port \in {50051, 9000}
          /\ conn.target = conn.port
          /\ conn.target \in {p.containerPort : p \in ContainerPorts}

\* C6 witness: both probes succeeded on 9000 and a gRPC connection went through.
C6_Witness ==
    /\ liveness.result = "ok"
    /\ readiness.result = "ok"
    /\ conn.result = "forwarded"
    /\ conn.port = 50051

\* C7: a settled user request is rejected with "Failed to load user" exactly
\* when the response had an error or no data, with "User not found" exactly
\* when it had no error and data with a null user, and otherwise fulfilled
\* with the user of the response; never fulfilled with null or undefined.
C7_Classified ==
    LET p == userRequest.value
        failed == p.res.error \/ p.res.data = "undefined"
        missing == ~p.res.error /\ p.res.data = "null"
    IN p.st \in Settled =>
        /\ (p.st = "rejected" /\ p.val = "Failed to load user") <=> failed
        /\ (p.st = "rejected" /\ p.val = "User not found") <=> missing
        /\ (p.st = "fulfilled" /\ p.val = p.res.data) <=> (~failed /\ ~missing)
        /\ p.st = "fulfilled" => p.val \in Keys

\* C7 witness: an error came with a user in the data, and the error won.
C7_Witness ==
    /\ userRequest.value.res.error
    /\ userRequest.value.res.data \in Keys
    /\ userRequest.value.st = "rejected"

\* C8 (step part): a special-events query is sent only by the effect running
\* while createDialogMode is "hidden", and it replaces results by the new
\* pending request; a step into or in "shown" sends none; mounting the page
\* and a change to "hidden" schedule the effect.
C8_Step ==
    /\ Sent("events") =>
          /\ effectDirty
          /\ createDialogMode = "hidden"
          /\ Len(reqs') = Len(reqs) + 1
          /\ results' = PendingEvents(Len(reqs'))
          /\ table' = Await(results')
    /\ (createDialogMode = "shown" \/ createDialogMode' = "shown") => ~Sent("events")
    /\ ((route # "admin" /\ route' = "admin")
        \/ (/\ route = "admin" /\ route' = "admin"
            /\ createDialogMode = "shown" /\ createDialogMode' = "hidden"))
          => effectDirty'

\* C8 (liveness part): once the page is mounted or the dialog is closed, the
\* list is queried again.
C8_Requeried ==
    \A m \in 0..MaxReqs :
        (route = "admin" /\ effectDirty /\ createDialogMode = "hidden" /\ Len(reqs) = m)
            ~> (/\ Len(reqs) = m + 1
                /\ reqs[m + 1].src = "events"
                /\ results = PendingEvents(m + 1))

\* C8: the special-events request is re-derived on mount and on every change
\* of createDialogMode to "hidden", and never for "shown".
C8_RederivedOnHidden == [][C8_Step]_vars /\ C8_Requeried

\* C8 witness: the list was rendered, the create dialog was opened and closed,
\* and the effect has sent the second query.
C8_Witness ==
    /\ route = "admin"
    /\ last = "effect"
    /\ createDialogMode = "hidden"
    /\ results = PendingEvents(2)
    /\ assignEntitlementsDialog # 0

\* C9: the settings load redirects with 303 to /sign-in?continue=/settings
\* exactly when the store holds no user as it runs; with a user it returns
\* nothing and the settings page is shown.
C9_Step ==
    last' = "settingsLoad" =>
        IF user \in {"undefined", "null"}
        THEN /\ loadResult' = [kind |-> "redirect", status |-> 303,
                               location |-> "/sign-in?continue=/settings"]
             /\ route' = "signin"
        ELSE /\ loadResult' = [kind |-> "returned", status |-> 0, location |-> ""]
             /\ route' = "settings"

\* C9: every run of the settings load redirects if and only if the store
\* holds no user.
C9_RedirectIffNoUser == [][C9_Step]_vars

\* C9 witness: a signed-out visitor was redirected.
C9_Witness ==
    /\ last = "settingsLoad"
    /\ user = "null"
    /\ loadResult.kind = "redirect"
    /\ route = "signin"

\* C10 (state part): among the rendered events at most one assign dialog and
\* at most one view dialog is shown, and the dialog of event e is shown
\* exactly when the tracked id is e.
C10_Shown ==
    LET rendered == {e \in 1..MaxEvents : Rendered(e)}
    IN route = "admin" =>
        /\ Cardinality({e \in rendered : AssignMode(e) = "shown"}) <= 1
        /\ Cardinality({e \in rendered : ViewMode(e) = "shown"}) <= 1
        /\ \A e \in rendered :
              /\ AssignMode(e) = "shown" <=> assignEntitlementsDialog = e
              /\ ViewMode(e) = "shown" <=> viewEntitlementsDialog = e

\* C10 (step part): a dialog set to "hidden" resets the tracked id of its own
\* kind and leaves the other one.
C10_Step ==
    /\ last' = "assignHidden" =>
          /\ assignEntitlementsDialog' = 0
          /\ viewEntitlementsDialog' = viewEntitlementsDialog
    /\ last' = "viewHidden" =>
          /\ viewEntitlementsDialog' = 0
          /\ assignEntitlementsDialog' = assignEntitlementsDialog

\* C10: the two entitlement dialogs of the special-events page follow their
\* tracked ids, one event at a time each, and close independently.
C10_EntitlementDialogs == [](C10_Shown) /\ [][C10_Step]_vars

\* C10 witness: the assign dialog was closed while the view dialog of an
\* event stays open.
C10_Witness ==
    /\ route = "admin"
    /\ last = "assignHidden"
    /\ assignEntitlementsDialog = 0
    /\ viewEntitlementsDialog # 0
    /\ Rendered(viewEntitlementsDialog)

\* C11 (state part): selected is the argument of the most recent select, or,
\* before any select, the selected its parent passed, else the first
\* option's value, else undefined; the dropdown starts collapsed.
C11_Selected ==
    last # "init" =>
        /\ selected = IF picked # "-" THEN picked
                      ELSE IF given # "undefined" THEN given
                      ELSE IF Len(options) > 0 THEN options[1] ELSE "undefined"
        /\ last = "mount" => ~expanded

\* C11 (step part): close and select leave the dropdown collapsed, toggle
\* inverts it, and toggle and close leave selected alone.
C11_Step ==
    /\ last' \in {"close", "select"} => ~expanded'
    /\ last' = "toggle" => (expanded' = ~expanded /\ selected' = selected)
    /\ last' = "close" => selected' = selected

\* C11: after any sequence of toggle, close and select the select component
\* holds the last selected value and is collapsed after close and select.
C11_SelectComponent == [](C11_Selected) /\ [][C11_Step]_vars

\* C11 witness: an option other than the initial one was selected, the
\* dropdown closed by it and opened again.
C11_Witness ==
    /\ last = "toggle"
    /\ expanded
    /\ picked # "-"
    /\ selected = picked
    /\ selected # InitialSelected(options, given)

\* C12: for the current request the table shows exactly one of the spinner
\* row (exactly while the request is unanswered), the "No Special Events" row
\* (exactly when it resolved to undefined or to an empty list) and one row
\* per returned event; "Found N results" is shown only for a defined list,
\* with N its length.
C12_TableStates ==
    (route = "admin" /\ results.st # "undefined") =>
        LET b == TableBody(table)
            pending == ~reqs[results.n].done
            data == results.res.data
            none == ~data.defined \/ Len(data.list) = 0
            shown == {x \in {"spinner", "empty", "rows"} :
                        \/ x = "spinner" /\ b.spinner
                        \/ x = "empty" /\ b.empty
                        \/ x = "rows" /\ Len(b.rows) > 0}
        IN /\ b.spinner <=> pending
           /\ b.empty <=> (~pending /\ none)
           /\ b.rows = IF ~pending /\ ~none THEN data.list ELSE <<>>
           /\ Cardinality(shown) = 1
           /\ FoundText(table) # -1 =>
                 /\ ~pending
                 /\ data.defined
                 /\ FoundText(table) = Len(data.list)

\* C12 witness: the request resolved to an empty list: the empty-state row
\* and "Found 0 results".
C12_Witness ==
    /\ route = "admin"
    /\ results.st = "fulfilled"
    /\ results.res.data.defined
    /\ Len(results.res.data.list) = 0
    /\ TableBody(table).empty
    /\ FoundText(table) = 0

====
